---- MODULE Spec2Model ----
(***************************************************************************)
(* Model of backend/main.go: startup of the users service, the mux router, *)
(* the CORS middleware and the five CRUD handlers over the users table.    *)
(* log.Fatal is os.Exit(1): it ends the process, so no statement after it  *)
(* in the same branch ever runs.                                           *)
(***************************************************************************)
EXTENDS Integers, Sequences, FiniteSets, TLC

\* ---- bounds ----
MaxSerial == 2      \* rows the SERIAL sequence hands out in a run
MaxRequests == 3    \* requests accepted in a run

Slots == {"h1", "h2"}   \* handler goroutines that can be in flight together

\* ---- request inputs ----
Methods == {"GET", "POST", "PUT", "DELETE", "OPTIONS"}
Paths == {"/", "/api/go/users", "/api/go/users/{id}"}
IdText == <<"1", "2", "3", "4", "5", "6">>
PathIds == {IdText[i] : i \in 1..MaxSerial} \cup {"abc"}

NoBody == [kind |-> "empty", id |-> 0, name |-> "", email |-> ""]
Bodies ==
  { [kind |-> "valid", id |-> 0, name |-> "A", email |-> "a@x.com"],
    [kind |-> "valid", id |-> 9, name |-> "B", email |-> "b@x.com"],
    [kind |-> "malformed", id |-> 9, name |-> "A", email |-> "a@x.com"],
    [kind |-> "mistyped", id |-> 0, name |-> "A", email |-> "a@x.com"] }

\* type User struct
User == [Id |-> 0, Name |-> "", Email |-> ""]

\* the headers EnableCORS sets
CorsHeaders ==
  { <<"Access-Control-Allow-Origin", "*">>,
    <<"Access-Control-Allow-Methods", "GET, PUT, PATCH, POST, DELETE">>,
    <<"Access-Control-Allow-Headers", "Content-Type">> }

NoResp == [status |-> 0, enc |-> "none", body |-> <<>>, headers |-> {}]
NoReq == [method |-> "GET", path |-> "/", id |-> "", body |-> NoBody]

VARIABLES
  mainPc,       \* position of main()
  alive,        \* the process has not exited
  environ,      \* [dotenv, dburl]: .env loadable, DATABASE_URL non-empty
  db,           \* [opened, pinged]
  schemaTried,  \* CreateTable issued its statement
  tableExists,  \* the users table exists in the store
  routes,       \* the router has its routes
  listening,    \* the listener is bound
  users,        \* rows of the users table
  nextId,       \* next value of the SERIAL sequence
  pc,           \* position of each handler goroutine
  req,          \* the request each goroutine serves
  user,         \* the handler's local `user`
  err,          \* the handler's local `err`
  resp,         \* what the ResponseWriter has been given
  affected,     \* rows the handler's UPDATE changed (the discarded sql.Result)
  calls,        \* invocations of the handler wrapped by EnableCORS
  started,      \* requests accepted so far
  inserted,     \* history: rows the store has generated ids for
  updatedIds,   \* history: ids an UPDATE statement has changed
  deletedIds,   \* history: ids a DELETE statement has removed
  dirty         \* history: another request wrote the table since this one began

vars == <<mainPc, alive, environ, db, schemaTried, tableExists, routes,
          listening, users, nextId, pc, req, user, err, resp, affected, calls,
          started, inserted, updatedIds, deletedIds, dirty>>

startupVars == <<environ, db, schemaTried, tableExists, routes, listening>>
storeVars == <<users, nextId, inserted, updatedIds, deletedIds>>

\* ---- pure helpers ----

\* Postgres casts the bound text parameter to the integer id column.
IsInteger(s) == \E i \in 1..Len(IdText) : IdText[i] = s
ParseId(s) == CHOOSE i \in 1..Len(IdText) : IdText[i] = s

\* variant: the fields read before the syntax error are stored
Decode_partial(body, u) ==
  CASE body.kind = "valid" ->
         [Id |-> body.id, Name |-> body.name, Email |-> body.email]
    [] body.kind \in {"mistyped", "malformed"} ->
         [u EXCEPT !.Id = body.id, !.Name = body.name]
    [] OTHER -> u

\* json.NewDecoder(r.Body).Decode(&user): a syntax error or an empty body
\* leaves the target untouched; a field of the wrong type is skipped and the
\* rest is stored.  The returned error is dropped by every caller.
Decode(body, u) ==
  CASE body.kind = "valid" ->
         [Id |-> body.id, Name |-> body.name, Email |-> body.email]
    [] body.kind = "mistyped" -> [u EXCEPT !.Id = body.id, !.Name = body.name]
    [] OTHER -> u

\* mux matches routes in registration order; a route without Methods()
\* matches every method.  Result: handler entry point, or the router's answer.
Route(method, path) ==
  CASE path = "/" -> "cors"
    [] path = "/api/go/users" /\ method = "GET" -> "getUsers"
    [] path = "/api/go/users" /\ method = "POST" -> "createUsers"
    [] path = "/api/go/users/{id}" /\ method = "GET" -> "getUsersId"
    [] path = "/api/go/users/{id}" /\ method = "PUT" -> "updateUser"
    [] path = "/api/go/users/{id}" /\ method = "DELETE" -> "deleteUser"
    [] OTHER -> "405"

\* rows of the table with the given id parameter
RowsWithId(tbl, s) == {row \in tbl : IsInteger(s) /\ row.Id = ParseId(s)}

\* orders in which SELECT * FROM users may return the rows
RowSeqs(tbl) ==
  {s \in [1..Cardinality(tbl) -> tbl] : \A i, j \in DOMAIN s : s[i] = s[j] => i = j}

\* variant: each row overwrites the slice instead of being appended
ScanRows_last(rows, acc) ==
  IF rows = <<>> THEN acc ELSE <<rows[Len(rows)]>>

\* for rows.Next() { rows.Scan(...); users = append(users, user) }
RECURSIVE ScanRows(_, _)
ScanRows(rows, acc) ==
  IF rows = <<>> THEN acc
  ELSE ScanRows(Tail(rows), Append(acc, Head(rows)))

\* log.Fatal(...) in a handler: the process exits, nothing is written
Fatal(r, e) ==
  /\ alive' = FALSE
  /\ pc' = [pc EXCEPT ![r] = "killed"]
  /\ err' = [err EXCEPT ![r] = e]

\* a write to the table marks every other request as interleaved with
MarkDirty(r) == dirty' = [s \in Slots |-> IF s = r THEN dirty[s] ELSE TRUE]

\* ---- startup: main() and ConnectDatabase() ----

Init ==
  /\ mainPc = "load_env"
  /\ alive = TRUE
  /\ environ \in [dotenv : BOOLEAN, dburl : BOOLEAN]
  /\ db = [opened |-> FALSE, pinged |-> FALSE]
  /\ schemaTried = FALSE
  /\ tableExists = FALSE
  /\ routes = FALSE
  /\ listening = FALSE
  /\ users = {}
  /\ nextId = 1
  /\ pc = [r \in Slots |-> "idle"]
  /\ req = [r \in Slots |-> NoReq]
  /\ user = [r \in Slots |-> User]
  /\ err = [r \in Slots |-> "nil"]
  /\ resp = [r \in Slots |-> NoResp]
  /\ affected = [r \in Slots |-> 0]
  /\ calls = [r \in Slots |-> 0]
  /\ started = 0
  /\ inserted = {}
  /\ updatedIds = {}
  /\ deletedIds = {}
  /\ dirty = [r \in Slots |-> FALSE]

handlerVars == <<pc, req, user, err, resp, affected, calls, started, dirty>>

MainExit ==
  /\ mainPc' = "exited"
  /\ alive' = FALSE

LoadEnv ==
  /\ alive /\ mainPc = "load_env"
  /\ IF environ.dotenv
       THEN mainPc' = "getenv" /\ alive' = alive
       ELSE MainExit
  /\ UNCHANGED <<startupVars, storeVars, handlerVars>>

GetDatabaseURL ==
  /\ alive /\ mainPc = "getenv"
  /\ IF environ.dburl
       THEN mainPc' = "open" /\ alive' = alive
       ELSE MainExit
  /\ UNCHANGED <<startupVars, storeVars, handlerVars>>

OpenDB ==
  /\ alive /\ mainPc = "open"
  /\ \E ok \in BOOLEAN :
       IF ok
         THEN /\ mainPc' = "ping" /\ alive' = alive
              /\ db' = [db EXCEPT !.opened = TRUE]
         ELSE MainExit /\ db' = db
  /\ UNCHANGED <<environ, schemaTried, tableExists, routes, listening,
                 storeVars, handlerVars>>

\* variant: the error of db.Ping() is not checked
PingDB_unchecked ==
  /\ alive /\ mainPc = "ping"
  /\ \E ok \in BOOLEAN :
       /\ mainPc' = "create_table" /\ alive' = alive
       /\ db' = [db EXCEPT !.pinged = ok]
  /\ UNCHANGED <<environ, schemaTried, tableExists, routes, listening,
                 storeVars, handlerVars>>

PingDB ==
  /\ alive /\ mainPc = "ping"
  /\ \E ok \in BOOLEAN :
       IF ok
         THEN /\ mainPc' = "create_table" /\ alive' = alive
              /\ db' = [db EXCEPT !.pinged = TRUE]
         ELSE MainExit /\ db' = db
  /\ UNCHANGED <<environ, schemaTried, tableExists, routes, listening,
                 storeVars, handlerVars>>

\* CreateTable: a failure is logged with log.Printf and startup goes on
CreateTable ==
  /\ alive /\ mainPc = "create_table"
  /\ schemaTried' = TRUE
  /\ \E ok \in BOOLEAN : tableExists' = ok
  /\ mainPc' = "routes"
  /\ UNCHANGED <<alive, environ, db, routes, listening, storeVars, handlerVars>>

RegisterRoutes ==
  /\ alive /\ mainPc = "routes"
  /\ routes' = TRUE
  /\ mainPc' = "listen"
  /\ UNCHANGED <<alive, environ, db, schemaTried, tableExists, listening,
                 storeVars, handlerVars>>

ListenAndServe ==
  /\ alive /\ mainPc = "listen"
  /\ \E ok \in BOOLEAN :
       IF ok
         THEN mainPc' = "serving" /\ alive' = alive /\ listening' = TRUE
         ELSE MainExit /\ listening' = listening
  /\ UNCHANGED <<environ, db, schemaTried, tableExists, routes,
                 storeVars, handlerVars>>


\* ---- the store: one statement each ----

\* A statement fails when the table is missing or the id parameter is not an
\* integer, and may fail for reasons outside the program (connection loss).
StmtFails(idParam) ==
  IF ~tableExists \/ (idParam /= "" /\ ~IsInteger(idParam)) THEN {TRUE} ELSE BOOLEAN

\* variant: the statement has no WHERE clause
UpdateRows_all(tbl, s, name, email) ==
  {[row EXCEPT !.Name = name, !.Email = email] : row \in tbl}

\* UPDATE users SET name=$1, email=$2 WHERE id=$3
UpdateRows(tbl, s, name, email) ==
  (tbl \ RowsWithId(tbl, s)) \cup
    {[row EXCEPT !.Name = name, !.Email = email] : row \in RowsWithId(tbl, s)}

\* DELETE FROM users WHERE id=$1
DeleteRows(tbl, s) == tbl \ RowsWithId(tbl, s)

\* INSERT INTO users (name, email) VALUES ($1,$2) RETURNING id
InsertRow(id, name, email) == [Id |-> id, Name |-> name, Email |-> email]

\* variant: the generated id is not scanned back
ScanReturningId_keep(u, id) == u

\* the id RETURNING id is scanned into user.Id
ScanReturningId(u, id) == [u EXCEPT !.Id = id]

Ids(rows) == {row.Id : row \in rows}

\* ---- the router and the handlers ----

Respond(r, status, enc, body) ==
  resp' = [resp EXCEPT ![r] = [@ EXCEPT !.status = status, !.enc = enc, !.body = body]]

Serve(r) ==
  /\ alive /\ mainPc = "serving" /\ pc[r] = "idle"
  /\ started < MaxRequests
  /\ \E m \in Methods, p \in Paths :
     \E i \in (IF p = "/api/go/users/{id}" THEN PathIds ELSE {""}) :
     \E b \in (IF m \in {"POST", "PUT"} /\ p /= "/" THEN Bodies ELSE {NoBody}) :
       /\ req' = [req EXCEPT ![r] = [method |-> m, path |-> p, id |-> i, body |-> b]]
       /\ IF Route(m, p) = "405"
            THEN /\ pc' = [pc EXCEPT ![r] = "done"]
                 /\ Respond(r, 405, "none", <<>>)
            ELSE /\ pc' = [pc EXCEPT ![r] = Route(m, p)]
                 /\ resp' = resp
  /\ started' = started + 1
  /\ dirty' = [dirty EXCEPT ![r] = FALSE]
  /\ UNCHANGED <<mainPc, alive, startupVars, storeVars, user, err, affected, calls>>

\* variant: the preflight branch does not return
CallsNext_always(method) == TRUE

\* the wrapped handler runs exactly when the method is not OPTIONS
CallsNext(method) == method /= "OPTIONS"

EnableCORS(r) ==
  /\ alive /\ pc[r] = "cors"
  /\ IF CallsNext(req[r].method)
       THEN /\ resp' = [resp EXCEPT ![r] = [@ EXCEPT !.headers = CorsHeaders]]
            /\ calls' = [calls EXCEPT ![r] = @ + 1]
            /\ pc' = [pc EXCEPT ![r] = "homeHandler"]
       ELSE /\ resp' = [resp EXCEPT ![r] =
                          [status |-> 200, enc |-> "none", body |-> <<>>,
                           headers |-> CorsHeaders]]
            /\ calls' = calls
            /\ pc' = [pc EXCEPT ![r] = "done"]
  /\ UNCHANGED <<mainPc, alive, startupVars, storeVars, req, user, err, affected,
                 started, dirty>>

homeHandler(r) ==
  /\ alive /\ pc[r] = "homeHandler"
  /\ Respond(r, 200, "text", <<>>)
  /\ pc' = [pc EXCEPT ![r] = "done"]
  /\ UNCHANGED <<mainPc, alive, startupVars, storeVars, req, user, err, calls,
                 affected, started, dirty>>

getUsers(r) ==
  /\ alive /\ pc[r] = "getUsers"
  /\ \E fail \in StmtFails("") :
       IF fail
         THEN Fatal(r, "error") /\ resp' = resp
         ELSE /\ \E rows \in RowSeqs(users) :
                   Respond(r, 200, "array", ScanRows(rows, <<>>))
              /\ pc' = [pc EXCEPT ![r] = "done"]
              /\ UNCHANGED <<alive, err>>
  /\ UNCHANGED <<mainPc, startupVars, storeVars, req, user, affected, calls,
                 started, dirty>>

createDecode(r) ==
  /\ alive /\ pc[r] = "createUsers"
  /\ user' = [user EXCEPT ![r] = Decode(req[r].body, User)]
  /\ pc' = [pc EXCEPT ![r] = "createInsert"]
  /\ UNCHANGED <<mainPc, alive, startupVars, storeVars, req, err, resp, calls,
                 affected, started, dirty>>

createUsers(r) ==
  /\ alive /\ pc[r] = "createInsert"
  /\ nextId <= MaxSerial
  /\ \E fail \in StmtFails("") :
       IF fail
         THEN /\ Fatal(r, "error")
              /\ UNCHANGED <<resp, user, storeVars, dirty>>
         ELSE /\ users' = users \cup {InsertRow(nextId, user[r].Name, user[r].Email)}
              /\ inserted' = inserted \cup {InsertRow(nextId, user[r].Name, user[r].Email)}
              /\ nextId' = nextId + 1
              /\ user' = [user EXCEPT ![r] = ScanReturningId(@, nextId)]
              /\ Respond(r, 200, "object", <<user'[r]>>)
              /\ pc' = [pc EXCEPT ![r] = "done"]
              /\ MarkDirty(r)
              /\ UNCHANGED <<alive, err, updatedIds, deletedIds>>
  /\ UNCHANGED <<mainPc, startupVars, req, affected, calls, started>>

\* QueryRow(...).Scan(...): sql.ErrNoRows when no row matches
ScanRow(rows) == IF rows = {} THEN "ErrNoRows" ELSE "nil"

getUsersId(r) ==
  /\ alive /\ pc[r] = "getUsersId"
  /\ \E fail \in StmtFails(req[r].id) :
       IF fail
         THEN Fatal(r, "error") /\ resp' = resp
         ELSE IF ScanRow(RowsWithId(users, req[r].id)) /= "nil"
           THEN Fatal(r, ScanRow(RowsWithId(users, req[r].id))) /\ resp' = resp
           ELSE /\ \E row \in RowsWithId(users, req[r].id) :
                     Respond(r, 200, "object", <<row>>)
                /\ pc' = [pc EXCEPT ![r] = "done"]
                /\ UNCHANGED <<alive, err>>
  /\ UNCHANGED <<mainPc, startupVars, storeVars, req, user, affected, calls,
                 started, dirty>>

updateDecode(r) ==
  /\ alive /\ pc[r] = "updateUser"
  /\ user' = [user EXCEPT ![r] = Decode(req[r].body, User)]
  /\ pc' = [pc EXCEPT ![r] = "updateExec"]
  /\ UNCHANGED <<mainPc, alive, startupVars, storeVars, req, err, resp, calls,
                 affected, started, dirty>>

updateExec(r) ==
  /\ alive /\ pc[r] = "updateExec"
  /\ \E fail \in StmtFails(req[r].id) :
       IF fail
         THEN /\ Fatal(r, "error")
              /\ UNCHANGED <<storeVars, dirty, affected>>
         ELSE /\ affected' = [affected EXCEPT ![r] = Cardinality(RowsWithId(users, req[r].id))]
              /\ users' = UpdateRows(users, req[r].id, user[r].Name, user[r].Email)
              /\ updatedIds' = updatedIds \cup Ids(RowsWithId(users, req[r].id))
              /\ IF RowsWithId(users, req[r].id) /= {} THEN MarkDirty(r) ELSE dirty' = dirty
              /\ pc' = [pc EXCEPT ![r] = "updateSelect"]
              /\ UNCHANGED <<alive, err, nextId, inserted, deletedIds>>
  /\ UNCHANGED <<mainPc, startupVars, req, user, resp, calls, started>>

updateSelect(r) ==
  /\ alive /\ pc[r] = "updateSelect"
  /\ \E fail \in StmtFails(req[r].id) :
       IF fail
         THEN Fatal(r, "error") /\ resp' = resp
         ELSE IF ScanRow(RowsWithId(users, req[r].id)) /= "nil"
           THEN Fatal(r, ScanRow(RowsWithId(users, req[r].id))) /\ resp' = resp
           ELSE /\ \E row \in RowsWithId(users, req[r].id) :
                     Respond(r, 200, "object", <<row>>)
                /\ pc' = [pc EXCEPT ![r] = "done"]
                /\ UNCHANGED <<alive, err>>
  /\ UNCHANGED <<mainPc, startupVars, storeVars, req, user, affected, calls,
                 started, dirty>>

deleteUser(r) ==
  /\ alive /\ pc[r] = "deleteUser"
  /\ user' = [user EXCEPT ![r] = Decode(req[r].body, User)]
  /\ \E fail \in StmtFails(req[r].id) :
       IF fail
         THEN /\ Fatal(r, "error")
              /\ UNCHANGED <<resp, storeVars, dirty>>
         ELSE /\ users' = DeleteRows(users, req[r].id)
              /\ deletedIds' = deletedIds \cup Ids(RowsWithId(users, req[r].id))
              /\ IF RowsWithId(users, req[r].id) /= {} THEN MarkDirty(r) ELSE dirty' = dirty
              /\ Respond(r, 200, "none", <<>>)
              /\ pc' = [pc EXCEPT ![r] = "done"]
              /\ UNCHANGED <<alive, err, nextId, inserted, updatedIds>>
  /\ UNCHANGED <<mainPc, startupVars, req, affected, calls, started>>

\* the response has gone out; the goroutine ends and the slot is free again
Finish(r) ==
  /\ alive /\ pc[r] = "done"
  /\ pc' = [pc EXCEPT ![r] = "idle"]
  /\ req' = [req EXCEPT ![r] = NoReq]
  /\ user' = [user EXCEPT ![r] = User]
  /\ resp' = [resp EXCEPT ![r] = NoResp]
  /\ calls' = [calls EXCEPT ![r] = 0]
  /\ affected' = [affected EXCEPT ![r] = 0]
  /\ dirty' = [dirty EXCEPT ![r] = FALSE]
  /\ UNCHANGED <<mainPc, alive, startupVars, storeVars, err, started>>

Next ==
  \/ LoadEnv
  \/ GetDatabaseURL
  \/ OpenDB
  \/ PingDB
  \/ CreateTable
  \/ RegisterRoutes
  \/ ListenAndServe
  \/ \E r \in Slots : Serve(r)
  \/ \E r \in Slots : EnableCORS(r)
  \/ \E r \in Slots : homeHandler(r)
  \/ \E r \in Slots : getUsers(r)
  \/ \E r \in Slots : createDecode(r)
  \/ \E r \in Slots : createUsers(r)
  \/ \E r \in Slots : getUsersId(r)
  \/ \E r \in Slots : updateDecode(r)
  \/ \E r \in Slots : updateExec(r)
  \/ \E r \in Slots : updateSelect(r)
  \/ \E r \in Slots : deleteUser(r)
  \/ \E r \in Slots : Finish(r)

Spec == Init /\ [][Next]_vars

\* ---- properties ----

\* goroutine r leaves position `at` in this step
Took(r, at) == pc[r] = at /\ pc'[r] /= at

\* the statement r ran in this step was executed by the store
StmtOk(r) == err'[r] /= "error"

IsCreate(r) == req[r].method = "POST" /\ req[r].path = "/api/go/users"
IsGetId(r) == req[r].method = "GET" /\ req[r].path = "/api/go/users/{id}"
IsUpdate(r) == req[r].method = "PUT" /\ req[r].path = "/api/go/users/{id}"
IsHome(r) == req[r].path = "/"

\* r's response is a 200 carrying exactly one User
OneUser(rs) == rs.status = 200 /\ rs.enc = "object" /\ Len(rs.body) = 1

\* C1: a GET /api/go/users/{id} for an id with no row is answered 404, never
\* 500, and the process is still running afterwards.
C1_MissingIdIs404 ==
  [][\A r \in Slots :
       (Took(r, "getUsersId") /\ RowsWithId(users, req[r].id) = {} /\ StmtOk(r))
         => (resp'[r].status = 404 /\ alive')]_vars

\* C2: POST returns the submitted name and email with the non-zero id the
\* store generated, whatever id the client sent; a GET of that id returns the
\* same name and email as long as no Update or Delete touched the id.
C2_CreateGetRoundTrip ==
  /\ \A r \in Slots :
       (IsCreate(r) /\ pc[r] = "done") =>
         /\ OneUser(resp[r])
         /\ resp[r].body[1].Id /= 0
         /\ resp[r].body[1].Id \in 1..(nextId - 1)
         /\ resp[r].body[1] \in inserted
         /\ req[r].body.kind = "valid" =>
              /\ resp[r].body[1].Name = req[r].body.name
              /\ resp[r].body[1].Email = req[r].body.email
  /\ \A r, g \in Slots :
       ( /\ IsCreate(r) /\ pc[r] = "done" /\ req[r].body.kind = "valid"
         /\ IsGetId(g) /\ pc[g] = "done" /\ IsInteger(req[g].id)
         /\ ParseId(req[g].id) = resp[r].body[1].Id
         /\ ParseId(req[g].id) \notin (updatedIds \cup deletedIds) ) =>
         /\ OneUser(resp[g])
         /\ resp[g].body[1].Id = resp[r].body[1].Id
         /\ resp[g].body[1].Name = req[r].body.name
         /\ resp[g].body[1].Email = req[r].body.email

W_C2 ==
  \E r, g \in Slots :
    /\ IsCreate(r) /\ pc[r] = "done" /\ req[r].body.kind = "valid"
    /\ req[r].body.id = 9
    /\ IsGetId(g) /\ pc[g] = "done" /\ IsInteger(req[g].id)
    /\ ParseId(req[g].id) = resp[r].body[1].Id
    /\ ParseId(req[g].id) \notin (updatedIds \cup deletedIds)

\* C3: DELETE of an existing id answers 200 with an empty body and removes
\* exactly that row; every later GET of the id is answered 404.
C3_DeleteThenGetIs404 ==
  [][\A r \in Slots :
       /\ (Took(r, "deleteUser") /\ RowsWithId(users, req[r].id) /= {} /\ StmtOk(r))
            => /\ resp'[r].status = 200 /\ resp'[r].enc = "none"
               /\ users' = users \ RowsWithId(users, req[r].id)
               /\ alive'
       /\ ( /\ Took(r, "getUsersId") /\ IsInteger(req[r].id) /\ StmtOk(r)
            /\ ParseId(req[r].id) \in deletedIds )
            => resp'[r].status = 404]_vars

\* C4: PUT on an existing id, with no other request writing in between,
\* returns that id with the submitted name and email, changes no other row,
\* and a following GET of the id returns the submitted name and email.
C4_UpdateReturnsUpdated ==
  [][\A r \in Slots :
       /\ (Took(r, "updateExec") /\ StmtOk(r)) =>
            /\ {row \in users' : row \notin RowsWithId(users', req[r].id)}
                 = {row \in users : row \notin RowsWithId(users, req[r].id)}
            /\ Ids(users') = Ids(users)
            /\ \A row \in RowsWithId(users', req[r].id) :
                 row.Name = user[r].Name /\ row.Email = user[r].Email
       /\ ( /\ Took(r, "updateSelect") /\ StmtOk(r)
            /\ affected[r] = 1 /\ ~dirty[r] /\ req[r].body.kind = "valid" ) =>
            /\ OneUser(resp'[r])
            /\ resp'[r].body[1] = [Id |-> ParseId(req[r].id),
                                   Name |-> req[r].body.name,
                                   Email |-> req[r].body.email]
       /\ \A g \in Slots :
            ( /\ IsUpdate(r) /\ pc[r] = "done" /\ ~dirty[r]
              /\ req[r].body.kind = "valid"
              /\ Took(g, "getUsersId") /\ StmtOk(g) /\ req[g].id = req[r].id ) =>
              /\ OneUser(resp'[g])
              /\ resp'[g].body[1] = [Id |-> ParseId(req[r].id),
                                     Name |-> req[r].body.name,
                                     Email |-> req[r].body.email]]_vars

W_C4 ==
  \E r \in Slots :
    /\ IsUpdate(r) /\ pc[r] = "done" /\ ~dirty[r] /\ req[r].body.kind = "valid"
    /\ OneUser(resp[r]) /\ resp[r].body[1].Name = req[r].body.name
    /\ Cardinality(users) = 2
    /\ \E row \in users : row.Name /= req[r].body.name

\* C5: a failing SQL statement in the Create, Update or Delete handler is
\* answered with a 500 without body, and the process keeps serving.
C5_SqlFailureIs500 ==
  [][\A r \in Slots :
       ( /\ pc[r] \in {"createInsert", "updateExec", "updateSelect", "deleteUser"}
         /\ err[r] = "nil" /\ err'[r] /= "nil" ) =>
         (resp'[r].status = 500 /\ resp'[r].enc = "none" /\ alive')]_vars

Malformed(r) == req[r].body.kind = "malformed"

\* C6: a malformed JSON body on POST or PUT does not end the process: the
\* decode error is dropped, the statement runs with empty name and email, and
\* the answer is a 200 carrying the empty fields.
C6_MalformedBodyIsZeroValues ==
  [][\A r \in Slots :
       /\ ((Took(r, "createUsers") \/ Took(r, "updateUser")) /\ Malformed(r)) =>
            /\ alive'
            /\ user'[r] = User
            /\ pc'[r] \in {"createInsert", "updateExec"}
       /\ (Took(r, "createInsert") /\ Malformed(r) /\ StmtOk(r)) =>
            /\ alive'
            /\ InsertRow(nextId, "", "") \in users'
            /\ OneUser(resp'[r])
            /\ resp'[r].body[1] = InsertRow(nextId, "", "")
       /\ (Took(r, "updateExec") /\ Malformed(r) /\ StmtOk(r)) =>
            /\ alive'
            /\ \A row \in RowsWithId(users', req[r].id) :
                 row.Name = "" /\ row.Email = ""
       /\ ( /\ Took(r, "updateSelect") /\ Malformed(r) /\ StmtOk(r)
            /\ affected[r] = 1 /\ ~dirty[r] ) =>
            /\ alive'
            /\ OneUser(resp'[r])
            /\ resp'[r].body[1] = InsertRow(ParseId(req[r].id), "", "")]_vars

W_C6 ==
  \E r, g \in Slots :
    /\ IsCreate(r) /\ Malformed(r) /\ pc[r] = "done" /\ OneUser(resp[r])
    /\ IsUpdate(g) /\ Malformed(g) /\ pc[g] = "done" /\ OneUser(resp[g])
    /\ resp[g].body[1].Name = "" /\ ~dirty[g]
    /\ alive

\* C7: the listener is bound only after the handle was opened and pinged;
\* when DATABASE_URL is unset or the open or the ping fails, the process ends
\* with no schema statement issued, no route registered and no listener bound.
C7_StartupOrdering ==
  /\ listening => (db.opened /\ db.pinged)
  /\ (schemaTried \/ routes \/ listening) =>
       (environ.dburl /\ db.opened /\ db.pinged)
  /\ ~environ.dburl => mainPc \in {"load_env", "getenv", "exited"}
  /\ (mainPc \notin {"load_env", "getenv", "open", "ping"} /\ ~(db.opened /\ db.pinged))
       => (mainPc = "exited" /\ ~alive)

W_C7 ==
  /\ mainPc = "exited" /\ ~alive
  /\ db.opened /\ ~db.pinged
  /\ ~schemaTried /\ ~routes /\ ~listening

\* C8: GET /api/go/users returns an array holding exactly the rows of the
\* table (an empty array for an empty table); with no Delete so far it has at
\* least as many elements as Creates and holds every created user.
C8_ListReturnsTable ==
  [][\A r \in Slots :
       (Took(r, "getUsers") /\ StmtOk(r)) =>
         LET b == resp'[r].body IN
           /\ resp'[r].status = 200 /\ resp'[r].enc = "array"
           /\ {b[i] : i \in 1..Len(b)} = users
           /\ Len(b) = Cardinality(users)
           /\ deletedIds = {} =>
                /\ Len(b) >= Cardinality(inserted)
                /\ \A row \in inserted : \E i \in 1..Len(b) :
                     /\ b[i].Id = row.Id
                     /\ row.Id \notin updatedIds => b[i] = row]_vars

W_C8 ==
  \E r \in Slots :
    /\ req[r].method = "GET" /\ req[r].path = "/api/go/users" /\ pc[r] = "done"
    /\ Len(resp[r].body) = 2 /\ Cardinality(inserted) = 2 /\ deletedIds = {}

\* C9: a request through the CORS middleware carries the three CORS headers;
\* OPTIONS is answered 200 with an empty body and the wrapped handler is not
\* invoked; any other method invokes the wrapped handler exactly once.
C9_CorsMiddleware ==
  \A r \in Slots :
    (IsHome(r) /\ pc[r] \in {"homeHandler", "done"}) =>
      /\ resp[r].headers = CorsHeaders
      /\ req[r].method = "OPTIONS" =>
           /\ pc[r] = "done" /\ calls[r] = 0
           /\ resp[r].status = 200 /\ resp[r].enc = "none" /\ resp[r].body = <<>>
      /\ req[r].method /= "OPTIONS" => calls[r] = 1

W_C9 ==
  \E r, g \in Slots :
    /\ IsHome(r) /\ req[r].method = "OPTIONS" /\ pc[r] = "done"
    /\ IsHome(g) /\ req[g].method = "GET" /\ pc[g] = "done" /\ calls[g] = 1

\* C10: when a concurrent DELETE takes effect between the Update handler's
\* UPDATE and its SELECT, the Update request gets an error response (never a
\* 200 with a User), the row stays deleted and the process keeps serving.
C10_UpdateRacingDelete ==
  [][\A r \in Slots :
       ( /\ Took(r, "updateSelect") /\ StmtOk(r)
         /\ affected[r] = 1 /\ RowsWithId(users, req[r].id) = {} ) =>
         /\ resp'[r].status \notin {0, 200}
         /\ resp'[r].enc = "none"
         /\ RowsWithId(users', req[r].id) = {}
         /\ alive']_vars

====
